---- MODULE Spec2Model ----
(***************************************************************************)
(* Background task orchestration of apps/document/tasks.py: planning and   *)
(* fan-out of status/assignee changes, document type deletion, field       *)
(* detector training, document class identification, the declared          *)
(* autoretry of every task and the periodic retraining of dirty fields.    *)
(* Every part is a small state machine of its own over the variables       *)
(* below; a specification runs one part and keeps the others idle.         *)
(***************************************************************************)
EXTENDS Integers, Sequences, FiniteSets, TLC

VARIABLES
    \* ---- status / assignee change planning (tasks.py 1134-1279)
    planReq,      \* the arguments of the plan_process_documents_* call
    planPc,       \* "idle" before the call, "planned" after it returned
    mainTasks,    \* main tasks started through call_task_func, in start order
    mainRun,      \* indices of the main tasks whose body has run
    subTasks,     \* sub-tasks scheduled through run_sub_tasks, in order
    subRun,       \* indices of the sub-tasks whose body has run
    \* ---- DeleteDocumentTypes (tasks.py 1362-1398)
    docTypes,     \* pks of the DocumentType rows in the database
    projects,     \* Project rows in the database: <<pk, type_id>>
    delReq,       \* kwargs document_type_ids of the Delete Document Types task
    delPc,        \* "idle" before process ran, "scheduled" after it returned
    delTasks,     \* the sub-tasks of the Delete Document Types task, in order
    delLog,       \* what happened to document types: <<"deleted"|"signal", pk>>
    \* ---- field detector training (tasks.py 101-316)
    fieldDetectable, \* DocumentField.is_detectable() of every field
    dirtyFields,  \* the fields whose dirty flag is set
    models,       \* ClassifierModel rows in the database: [pk, field]
    nextPk,       \* the pk the database gives to the next inserted row
    trainWorkers, \* how many training executions the workers run at a time
    trainExecs,   \* the training executions started so far
    trainSubTasks, \* sub-tasks scheduled by TrainAndTest.process
    \* ---- identify_document_classes (tasks.py 1282-1359)
    docClass,     \* Document.document_class of every document row
    docMeta,      \* DocumentMetadata of every document: "none" when no row exists
    rawCache,     \* document class in the cached field values of every document
    icArgs,       \* arguments of the current identify_document_classes call
    icPc,         \* "idle", "loop", "done", or "failed" when an exception left it
    icDocs,       \* the documents the loop has still to visit
    icSelected,   \* the documents the query of this call selected
    icCount,      \* total, counter and the task progress
    icResult,     \* what is_contract returned for each visited document
    icHistory,    \* runs started, documents without metadata at the start of
                  \* this call, documents classified by earlier calls
    \* ---- one task under the queue's autoretry
    rtTask,       \* its name, state, request.retries, executions of its body
                  \* and the exceptions that ended them
    \* ---- retrain_dirty_fields
    now,          \* the clock, in units of seconds
    taskRows,     \* the Task table: name, status, date_done, sub-tasks not yet finished
    rdLog,        \* what each call of retrain_dirty_fields did
    \* ---- ImportDocuments / ImportDocumentsPack
    impArgs,      \* the uploaded archive and the kwargs of ImportDocuments.process
    impPc,        \* where ImportDocuments.process stands
    impI,         \* archive entries the loop has handled
    impClock,     \* the last reading of datetime.datetime.now()
    dbCache,      \* DbCache: pairs <<key, bytes>>
    impSubArgs,   \* sub_args built by the loop
    impSubTasks,  \* 'Import Documents Pack' sub-tasks spawned
    impImported,  \* packages handed to DocumentImporter.import_documents
    \* ---- FixDocumentFieldCodes
    fixCodes,     \* DocumentField.code of every field row
    fixInitial,   \* the codes before the task ran
    fixPc,        \* whether the task has run
    fixLog        \* csv_log: (document type, old code, new code)

planVars == <<planReq, planPc, mainTasks, mainRun, subTasks, subRun>>

delVars == <<docTypes, projects, delReq, delPc, delTasks, delLog>>

trainVars == <<fieldDetectable, dirtyFields, models, nextPk, trainWorkers,
               trainExecs, trainSubTasks>>

classVars == <<docClass, docMeta, rawCache, icArgs, icPc, icDocs, icSelected, icCount,
               icResult, icHistory>>

retryVars == <<rtTask>>
retrainVars == <<now, taskRows, rdLog>>
importVars == <<impArgs, impPc, impI, impClock, dbCache, impSubArgs, impSubTasks, impImported>>
fixVars == <<fixCodes, fixInitial, fixPc, fixLog>>

vars == <<planVars, delVars, trainVars, classVars, retryVars, retrainVars, importVars, fixVars>>

\* what each part leaves alone
notPlan == <<delVars, trainVars, classVars, retryVars, retrainVars, importVars, fixVars>>
notDel == <<planVars, trainVars, classVars, retryVars, retrainVars, importVars, fixVars>>
notTrain == <<planVars, delVars, classVars, retryVars, retrainVars, importVars, fixVars>>
notClass == <<planVars, delVars, trainVars, retryVars, retrainVars, importVars, fixVars>>
notRetry == <<planVars, delVars, trainVars, classVars, retrainVars, importVars, fixVars>>
\* retraining shares the fields and the models with the training tasks
notRetrain == <<planVars, delVars, classVars, retryVars, importVars, fixVars, fieldDetectable,
                trainWorkers, trainExecs, trainSubTasks>>
notImport == <<planVars, delVars, trainVars, classVars, retryVars, retrainVars, fixVars>>
notFix == <<planVars, delVars, trainVars, classVars, retryVars, retrainVars, importVars>>

(***************************************************************************)
(* Bounds of the model.                                                    *)
(***************************************************************************)
MaxDocs == 4
MaxTrainRuns == 2
MaxClassRuns == 2
MaxClock == 3
MaxRetrainCalls == 3
MaxEntries == 2

(***************************************************************************)
(* Generic helpers.                                                        *)
(***************************************************************************)
Min(a, b) == IF a < b THEN a ELSE b

Range(s) == {s[i] : i \in DOMAIN s}

RECURSIVE Concat(_)
Concat(ss) == IF ss = <<>> THEN <<>> ELSE Head(ss) \o Concat(Tail(ss))

\* the elements of a finite set of numbers in ascending order
RECURSIVE SetToSeq(_)
SetToSeq(S) ==
    IF S = {} THEN <<>>
    ELSE LET x == CHOOSE y \in S : \A z \in S : y <= z
         IN <<x>> \o SetToSeq(S \ {x})

\* sequences over S without repetition, of length 0..n
DistinctSeqs(S, n) ==
    UNION {{s \in [1..k -> S] : \A i, j \in 1..k : i # j => s[i] # s[j]} : k \in 0..n}

(***************************************************************************)
(* apps.document.constants: the real values (100 and 20) are scaled down,  *)
(* keeping main chunk > sub chunk > 1.                                     *)
(***************************************************************************)
DOC_NUMBER_PER_MAIN_TASK == 3
DOC_NUMBER_PER_SUB_TASK == 2

(***************************************************************************)
(* apps.common.collection_utils.chunks(l, n): successive n-sized chunks of *)
(* l, the last one shorter when len(l) is no multiple of n, none for an    *)
(* empty l.                                                                *)
(***************************************************************************)
RECURSIVE chunks(_, _)
chunks(l, n) ==
    IF Len(l) = 0 THEN <<>>
    ELSE <<SubSeq(l, 1, Min(n, Len(l)))>> \o chunks(SubSeq(l, Min(n, Len(l)) + 1, Len(l)), n)

(***************************************************************************)
(* Planning: plan_process_documents_status_changed and                     *)
(* plan_process_documents_assignee_changed.                                *)
(***************************************************************************)
DocIds == 1..MaxDocs
StatusIds == {7, 8}
UserIds == {5, 6}
PlanKinds == {"status", "assignee"}

\* call_task_func(func, (doc_ids_chunk, new_id, changed_by_user_id), changed_by_user_id)
call_task_func(func, args, user_id) ==
    [func |-> func, doc_ids |-> args[1], new_id |-> args[2],
     changed_by_user_id |-> args[3], user_id |-> user_id]

\* the main tasks one plan call starts, in order, for a chunk size
PlanCalls(func, doc_ids, new_id, changed_by_user_id, size) ==
    LET cs == chunks(doc_ids, size)
    IN [i \in 1..Len(cs) |->
            call_task_func(func, <<cs[i], new_id, changed_by_user_id>>, changed_by_user_id)]

PlanInit ==
    /\ planReq \in [kind : PlanKinds, doc_ids : DistinctSeqs(DocIds, MaxDocs),
                    new_id : StatusIds, changed_by_user_id : UserIds]
    /\ planPc = "idle"
    /\ mainTasks = <<>>
    /\ mainRun = {}
    /\ subTasks = <<>>
    /\ subRun = {}

plan_process_documents_status_changed_dropsTail ==
    /\ planPc = "idle"
    /\ planReq.kind = "status"
    /\ LET all == PlanCalls("process_documents_status_changed", planReq.doc_ids,
                            planReq.new_id, planReq.changed_by_user_id,
                            DOC_NUMBER_PER_MAIN_TASK)
       IN mainTasks' = mainTasks \o
              SelectSeq(all, LAMBDA t : Len(t.doc_ids) = DOC_NUMBER_PER_MAIN_TASK)
    /\ planPc' = "planned"
    /\ UNCHANGED <<notPlan, planReq, mainRun, subTasks, subRun>>

plan_process_documents_status_changed ==
    /\ planPc = "idle"
    /\ planReq.kind = "status"
    /\ mainTasks' = mainTasks \o
           PlanCalls("process_documents_status_changed", planReq.doc_ids,
                     planReq.new_id, planReq.changed_by_user_id,
                     DOC_NUMBER_PER_MAIN_TASK)
    /\ planPc' = "planned"
    /\ UNCHANGED <<notPlan, planReq, mainRun, subTasks, subRun>>

plan_process_documents_assignee_changed ==
    /\ planPc = "idle"
    /\ planReq.kind = "assignee"
    /\ mainTasks' = mainTasks \o
           PlanCalls("process_documents_assignee_changed", planReq.doc_ids,
                     planReq.new_id, planReq.changed_by_user_id,
                     DOC_NUMBER_PER_MAIN_TASK)
    /\ planPc' = "planned"
    /\ UNCHANGED <<notPlan, planReq, mainRun, subTasks, subRun>>

SubTaskArgs_overlap(m, name, func) ==
    LET t == mainTasks[m]
        cs == chunks(t.doc_ids, DOC_NUMBER_PER_SUB_TASK)
    IN [i \in 1..Len(cs) |->
            [main |-> m, name |-> name, func |-> func,
             doc_ids |-> IF i > 1 THEN <<t.doc_ids[1]>> \o cs[i] ELSE cs[i],
             new_id |-> t.new_id, changed_by_user_id |-> t.changed_by_user_id]]

\* task.run_sub_tasks(name, sub_func, [(l, new_id, user) for l in chunks(doc_ids, N)])
SubTaskArgs(m, name, func) ==
    LET t == mainTasks[m]
        cs == chunks(t.doc_ids, DOC_NUMBER_PER_SUB_TASK)
    IN [i \in 1..Len(cs) |->
            [main |-> m, name |-> name, func |-> func, doc_ids |-> cs[i],
             new_id |-> t.new_id, changed_by_user_id |-> t.changed_by_user_id]]

process_documents_status_changed(m) ==
    /\ m \in DOMAIN mainTasks
    /\ m \notin mainRun
    /\ mainTasks[m].func = "process_documents_status_changed"
    /\ subTasks' = subTasks \o
           SubTaskArgs(m, "Process doc status change", "_process_documents_status_changed")
    /\ mainRun' = mainRun \cup {m}
    /\ UNCHANGED <<notPlan, planReq, planPc, mainTasks, subRun>>

process_documents_assignee_changed(m) ==
    /\ m \in DOMAIN mainTasks
    /\ m \notin mainRun
    /\ mainTasks[m].func = "process_documents_assignee_changed"
    /\ subTasks' = subTasks \o
           SubTaskArgs(m, "Process doc assignee change", "_process_documents_assignee_changed")
    /\ mainRun' = mainRun \cup {m}
    /\ UNCHANGED <<notPlan, planReq, planPc, mainTasks, subRun>>

\* _process_documents_status_changed / _process_documents_assignee_changed:
\* the sub-task fires the signal for its own doc_ids and ends
sub_process_documents_changed(s) ==
    /\ s \in DOMAIN subTasks
    /\ s \notin subRun
    /\ subRun' = subRun \cup {s}
    /\ UNCHANGED <<notPlan, planReq, planPc, mainTasks, mainRun, subTasks>>

PlanNext ==
    \/ plan_process_documents_status_changed
    \/ plan_process_documents_assignee_changed
    \/ \E m \in DOMAIN mainTasks : process_documents_status_changed(m)
    \/ \E m \in DOMAIN mainTasks : process_documents_assignee_changed(m)
    \/ \E s \in DOMAIN subTasks : sub_process_documents_changed(s)

PlanIdle ==
    /\ planReq = [kind |-> "status", doc_ids |-> <<>>, new_id |-> 7, changed_by_user_id |-> 5]
    /\ planPc = "idle"
    /\ mainTasks = <<>>
    /\ mainRun = {}
    /\ subTasks = <<>>
    /\ subRun = {}


(***************************************************************************)
(* Task states and the declared autoretry.  The queue (celery) wraps a     *)
(* task body declared with autoretry_for: an exception of one of the named *)
(* classes re-queues the task while request.retries < max_retries; any     *)
(* other exception, or a named one once the retries are used up, ends the  *)
(* task in FAILURE.                                                        *)
(***************************************************************************)
AUTORETRY_FOR == {"SoftTimeLimitExceeded", "InterfaceError", "OperationalError"}
Exceptions == AUTORETRY_FOR \cup {"DoesNotExist", "RuntimeError"}

AutoRetry(decl, exc, retries) ==
    IF exc \in decl.autoretry_for /\ retries < decl.max_retries THEN "RETRY" ELSE "FAILURE"

\* the tasks tasks.py declares: class-based tasks by class name, the others by
\* function name
AutoRetryTasks ==
    {"train_model_for_field", "train_model_for_dirty_field", "TrainAndTest",
     "test_field_detector_model", "join_field_detector_model_tests",
     "LoadDocumentWithFields", "create_document", "ImportCSVFieldDetectionConfig",
     "check_annotations", "check_field_values", "ImportDocumentType",
     "cache_document_fields_for_doc_ids", "ExportDocuments", "ImportDocuments",
     "ImportDocumentsPack", "_process_documents_status_changed",
     "process_documents_status_changed", "_process_documents_assignee_changed",
     "process_documents_assignee_changed", "process_document_changed",
     "identify_contracts", "delete_document_type", "ExportDocumentFiles"}
PlainTasks ==
    {"TrainDocumentFieldDetectorModel", "TrainDirtyDocumentFieldDetectorModel",
     "retrain_dirty_fields", "cache_updated_documents", "FindBrokenDocumentFieldValues",
     "FixDocumentFieldCodes", "DeleteDocuments", "DeleteDocumentTypes"}
TaskNames == AutoRetryTasks \cup PlainTasks

task_decl_allThree(name) ==
    IF name \in AutoRetryTasks
    THEN [autoretry_for |-> AUTORETRY_FOR, max_retries |-> 3]
    ELSE [autoretry_for |-> {}, max_retries |-> 3]

\* autoretry_for and max_retries as declared; a task that declares neither is
\* never retried (the queue's own max_retries default is 3)
task_decl(name) ==
    IF name \in AutoRetryTasks
    THEN [autoretry_for |-> AUTORETRY_FOR,
          max_retries |-> CASE name \in {"ImportDocuments", "ImportDocumentsPack"} -> 2
                            [] name = "cache_document_fields_for_doc_ids" -> 0
                            [] OTHER -> 3]
    ELSE [autoretry_for |-> {}, max_retries |-> 3]

RetryInit ==
    rtTask \in [name : TaskNames, state : {"PENDING"}, retries : {0}, executions : {0},
                raised : {<<>>}]

RetryIdle ==
    rtTask = [name |-> "None", state |-> "PENDING", retries |-> 0, executions |-> 0,
              raised |-> <<>>]

\* a worker takes the queued or re-queued task and runs its body
task_run ==
    /\ rtTask.name \in TaskNames
    /\ rtTask.state \in {"PENDING", "RETRY"}
    /\ rtTask' = [rtTask EXCEPT !.state = "STARTED", !.executions = @ + 1]
    /\ UNCHANGED notRetry

\* the body returns
task_return ==
    /\ rtTask.state = "STARTED"
    /\ rtTask' = [rtTask EXCEPT !.state = "SUCCESS"]
    /\ UNCHANGED notRetry

\* the body raises: no body of tasks.py calls retry or runs itself again, so
\* what follows is the queue's decision alone
task_raise(exc) ==
    /\ rtTask.state = "STARTED"
    /\ LET out == AutoRetry(task_decl(rtTask.name), exc, rtTask.retries)
       IN rtTask' = [rtTask EXCEPT !.state = out,
                                   !.retries = IF out = "RETRY" THEN @ + 1 ELSE @,
                                   !.raised = Append(@, exc)]
    /\ UNCHANGED notRetry

RetryNext ==
    \/ task_run
    \/ task_return
    \/ \E exc \in Exceptions : task_raise(exc)

Finished(t) == t.state \in {"SUCCESS", "FAILURE"}

(***************************************************************************)
(* DeleteDocumentTypes.                                                    *)
(***************************************************************************)
DocTypeIds == {1, 2}
ProjectIds == {1, 2}

\* the decorator of DeleteDocumentTypes.delete_document_type
delete_document_type_decl == task_decl("delete_document_type")

DelInit ==
    /\ docTypes = DocTypeIds
    /\ projects \in SUBSET {<<1, 1>>, <<2, 1>>, <<2, 2>>}
    /\ \A p, q \in projects : p[1] = q[1] => p = q
    /\ delReq \in {<<1>>, <<2>>, <<1, 2>>}
    /\ delPc = "idle"
    /\ delTasks = <<>>
    /\ delLog = <<>>

DelIdle ==
    /\ docTypes = {}
    /\ projects = {}
    /\ delReq = <<>>
    /\ delPc = "idle"
    /\ delTasks = <<>>
    /\ delLog = <<>>

\* a sub-task record as run_sub_tasks* / run_after_sub_tasks_finished store it
SubTask(name, after, arg) ==
    [name |-> name, after |-> after, arg |-> arg,
     state |-> "PENDING", retries |-> 0, pc |-> "none"]

\* run_after_sub_tasks_finished: such a task is started only when every
\* sub-task of the same parent scheduled with run_sub_tasks* has finished
CanStart(i) ==
    delTasks[i].after =>
        \A j \in DOMAIN delTasks : ~delTasks[j].after => Finished(delTasks[j])

DeleteDocumentTypes_process_noJoin ==
    /\ delPc = "idle"
    /\ LET project_ids == {p[1] : p \in {q \in projects : q[2] \in Range(delReq)}}
       IN delTasks' = <<SubTask("Clean Projects", FALSE, project_ids)>> \o
              [i \in DOMAIN delReq |-> SubTask("Delete Document Type itself", FALSE, delReq[i])]
    /\ delPc' = "scheduled"
    /\ UNCHANGED <<notDel, docTypes, projects, delReq, delLog>>

DeleteDocumentTypes_process ==
    /\ delPc = "idle"
    /\ LET project_ids == {p[1] : p \in {q \in projects : q[2] \in Range(delReq)}}
       IN delTasks' = <<SubTask("Clean Projects", FALSE, project_ids)>> \o
              [i \in DOMAIN delReq |-> SubTask("Delete Document Type itself", TRUE, delReq[i])]
    /\ delPc' = "scheduled"
    /\ UNCHANGED <<notDel, docTypes, projects, delReq, delLog>>

\* apps.project.tasks.CleanProjects with delete=True: a worker starts it ...
CleanProjects_start(i) ==
    /\ delTasks[i].name = "Clean Projects"
    /\ delTasks[i].state = "PENDING"
    /\ delTasks' = [delTasks EXCEPT ![i].state = "STARTED"]
    /\ UNCHANGED <<notDel, docTypes, projects, delReq, delPc, delLog>>

\* ... and it ends having deleted the projects of _project_ids
CleanProjects_finish(i) ==
    /\ delTasks[i].name = "Clean Projects"
    /\ delTasks[i].state = "STARTED"
    /\ projects' = {p \in projects : p[1] \notin delTasks[i].arg}
    /\ delTasks' = [delTasks EXCEPT ![i].state = "SUCCESS"]
    /\ UNCHANGED <<notDel, docTypes, delReq, delPc, delLog>>

\* a worker takes a queued (or re-queued) delete_document_type sub-task
delete_document_type_start(i) ==
    /\ delTasks[i].name = "Delete Document Type itself"
    /\ delTasks[i].state \in {"PENDING", "RETRY"}
    /\ CanStart(i)
    /\ delTasks' = [delTasks EXCEPT ![i].state = "STARTED", ![i].pc = "get"]
    /\ UNCHANGED <<notDel, docTypes, projects, delReq, delPc, delLog>>

\* the outcome of an exception leaving the body of sub-task i
Raised(i, exc) ==
    LET out == AutoRetry(delete_document_type_decl, exc, delTasks[i].retries)
    IN [delTasks EXCEPT ![i].state = out, ![i].pc = "none",
                        ![i].retries = IF out = "RETRY" THEN @ + 1 ELSE @]

\* dt = DocumentType.objects.get(pk=document_type_pk)
delete_document_type_get(i) ==
    /\ delTasks[i].state = "STARTED"
    /\ delTasks[i].pc = "get"
    /\ delTasks' = IF delTasks[i].arg \in docTypes
                   THEN [delTasks EXCEPT ![i].pc = "delete"]
                   ELSE Raised(i, "DoesNotExist")
    /\ UNCHANGED <<notDel, docTypes, projects, delReq, delPc, delLog>>

\* dt.delete()
delete_document_type_delete(i) ==
    /\ delTasks[i].state = "STARTED"
    /\ delTasks[i].pc = "delete"
    /\ docTypes' = docTypes \ {delTasks[i].arg}
    /\ delLog' = Append(delLog, <<"deleted", delTasks[i].arg>>)
    /\ delTasks' = [delTasks EXCEPT ![i].pc = "send"]
    /\ UNCHANGED <<notDel, projects, delReq, delPc>>

\* document_type_deleted.send(...): the receivers are called
delete_document_type_send(i) ==
    /\ delTasks[i].state = "STARTED"
    /\ delTasks[i].pc = "send"
    /\ delLog' = Append(delLog, <<"signal", delTasks[i].arg>>)
    /\ delTasks' = [delTasks EXCEPT ![i].pc = "sent"]
    /\ UNCHANGED <<notDel, docTypes, projects, delReq, delPc>>

\* the body returns
delete_document_type_return(i) ==
    /\ delTasks[i].state = "STARTED"
    /\ delTasks[i].pc = "sent"
    /\ delTasks' = [delTasks EXCEPT ![i].state = "SUCCESS", ![i].pc = "none"]
    /\ UNCHANGED <<notDel, docTypes, projects, delReq, delPc, delLog>>

\* an exception leaves the body where it stands: a database error of the
\* statement about to run or of a signal receiver, or the soft time limit
delete_document_type_raise(i, exc) ==
    /\ delTasks[i].state = "STARTED"
    /\ delTasks[i].pc \in {"get", "delete", "send", "sent"}
    /\ exc \in AUTORETRY_FOR \cup {"RuntimeError"}
    /\ exc = "RuntimeError" => delTasks[i].pc = "sent"
    /\ delTasks' = Raised(i, exc)
    /\ UNCHANGED <<notDel, docTypes, projects, delReq, delPc, delLog>>

DelNext ==
    \/ DeleteDocumentTypes_process
    \/ \E i \in DOMAIN delTasks : CleanProjects_start(i)
    \/ \E i \in DOMAIN delTasks : CleanProjects_finish(i)
    \/ \E i \in DOMAIN delTasks : delete_document_type_start(i)
    \/ \E i \in DOMAIN delTasks : delete_document_type_get(i)
    \/ \E i \in DOMAIN delTasks : delete_document_type_delete(i)
    \/ \E i \in DOMAIN delTasks : delete_document_type_send(i)
    \/ \E i \in DOMAIN delTasks : delete_document_type_return(i)
    \/ \E i \in DOMAIN delTasks : \E exc \in Exceptions : delete_document_type_raise(i, exc)


(***************************************************************************)
(* Field detector training: TrainDocumentFieldDetectorModel                *)
(* .train_model_for_field, TrainDirtyDocumentFieldDetectorModel            *)
(* .train_model_for_dirty_field and TrainAndTest.process.  The statements  *)
(* of a body are separate steps: the ORM runs in autocommit, no            *)
(* transaction spans the delete and the save.                              *)
(***************************************************************************)
FieldIds == {1, 2}
TestDocIds == {21}
TrainKinds == {"train_model_for_field", "train_model_for_dirty_field", "TrainAndTest"}

\* kwargs of TrainAndTest.process that decide its path
TrainAndTestOpts == [skip_training : BOOLEAN, skip_testing : BOOLEAN, test_projects : BOOLEAN]
NoOpts == [skip_training |-> FALSE, skip_testing |-> TRUE, test_projects |-> FALSE]

ModelsOf(f) == {m \in models : m.field = f}

TrainInitWith(workers) ==
    /\ fieldDetectable = [f \in FieldIds |-> f = 1]
    /\ dirtyFields = {1}
    /\ models \in {{},
                   {[pk |-> 1, field |-> 1], [pk |-> 2, field |-> 1]},
                   {[pk |-> 1, field |-> 1], [pk |-> 2, field |-> 2]}}
    /\ nextPk = 3
    /\ trainWorkers = workers
    /\ trainExecs = <<>>
    /\ trainSubTasks = <<>>

TrainIdle ==
    /\ fieldDetectable = [f \in FieldIds |-> FALSE]
    /\ dirtyFields = {}
    /\ models = {}
    /\ nextPk = 1
    /\ trainWorkers = 0
    /\ trainExecs = <<>>
    /\ trainSubTasks = <<>>

Running(e) == trainExecs[e].pc # "done"

\* a worker takes a training task: the execution starts at its first statement
TrainTaskStart(kind, f, opts) ==
    /\ Len(trainExecs) < MaxTrainRuns
    /\ Cardinality({e \in DOMAIN trainExecs : Running(e)}) < trainWorkers
    /\ kind = "TrainAndTest" \/ opts = NoOpts
    /\ trainExecs' = Append(trainExecs,
          [kind |-> kind, field |-> f, opts |-> opts,
           pc |-> CASE kind = "train_model_for_field" -> "train"
                    [] kind = "train_model_for_dirty_field" -> "can_retrain"
                    [] OTHER -> "begin",
           before |-> ModelsOf(f), train_calls |-> 0, new_model |-> "None",
           saved |-> {}])
    /\ UNCHANGED <<notTrain, fieldDetectable, dirtyFields, models, nextPk, trainWorkers,
                   trainSubTasks>>

\* dirty_field.can_retrain(), dirty = False, the approved documents count
train_model_for_dirty_field_can_retrain(e, can_retrain, enough_docs) ==
    /\ trainExecs[e].pc = "can_retrain"
    /\ dirtyFields' = IF can_retrain THEN dirtyFields \ {trainExecs[e].field} ELSE dirtyFields
    /\ trainExecs' = [trainExecs EXCEPT
          ![e].pc = IF can_retrain /\ enough_docs THEN "train" ELSE "done"]
    /\ UNCHANGED <<notTrain, fieldDetectable, models, nextPk, trainWorkers, trainSubTasks>>

\* TrainAndTest.process up to the training step: a field that is not
\* detectable is logged and the body goes on
TrainAndTest_process_begin(e) ==
    /\ trainExecs[e].pc = "begin"
    /\ trainExecs' = [trainExecs EXCEPT
          ![e].pc = IF trainExecs[e].opts.skip_training THEN "test" ELSE "train"]
    /\ UNCHANGED <<notTrain, fieldDetectable, dirtyFields, models, nextPk, trainWorkers,
                   trainSubTasks>>

\* field_detection.train_document_field_detector_model: a new, unsaved
\* ClassifierModel or None; None for a field that is not detectable
TrainResults(f) == IF fieldDetectable[f] THEN {"None", "Model"} ELSE {"None"}

\* new_model = field_detection.train_document_field_detector_model(...); if new_model:
train_document_field_detector_model(e, r) ==
    /\ trainExecs[e].pc = "train"
    /\ r \in TrainResults(trainExecs[e].field)
    /\ trainExecs' = [trainExecs EXCEPT
          ![e].new_model = r,
          ![e].train_calls = @ + 1,
          ![e].pc = IF r = "Model" THEN "delete"
                    ELSE IF trainExecs[e].kind = "TrainAndTest" THEN "test" ELSE "done"]
    /\ UNCHANGED <<notTrain, fieldDetectable, dirtyFields, models, nextPk, trainWorkers,
                   trainSubTasks>>

\* ClassifierModel.objects.filter(document_field=field).delete()
ClassifierModel_delete_keepsOld(e) ==
    /\ trainExecs[e].pc = "delete"
    /\ trainExecs' = [trainExecs EXCEPT ![e].pc = "save"]
    /\ UNCHANGED <<notTrain, fieldDetectable, dirtyFields, models, nextPk, trainWorkers,
                   trainSubTasks>>

ClassifierModel_delete(e) ==
    /\ trainExecs[e].pc = "delete"
    /\ models' = models \ ModelsOf(trainExecs[e].field)
    /\ trainExecs' = [trainExecs EXCEPT ![e].pc = "save"]
    /\ UNCHANGED <<notTrain, fieldDetectable, dirtyFields, nextPk, trainWorkers,
                   trainSubTasks>>

\* new_model.save(): the row is inserted with a fresh pk
new_model_save(e) ==
    /\ trainExecs[e].pc = "save"
    /\ models' = models \cup {[pk |-> nextPk, field |-> trainExecs[e].field]}
    /\ nextPk' = nextPk + 1
    /\ trainExecs' = [trainExecs EXCEPT
          ![e].saved = {[pk |-> nextPk, field |-> trainExecs[e].field]},
          ![e].pc = IF trainExecs[e].kind = "TrainAndTest" THEN "test" ELSE "done"]
    /\ UNCHANGED <<notTrain, fieldDetectable, dirtyFields, trainWorkers, trainSubTasks>>

\* TrainAndTest.process from `if skip_testing` on: test_document_ids is what
\* the queries over the test projects return
TrainAndTest_process_test(e, test_document_ids) ==
    /\ trainExecs[e].pc = "test"
    /\ test_document_ids \in SUBSET TestDocIds
    /\ trainSubTasks' =
          IF \/ trainExecs[e].opts.skip_testing
             \/ ~trainExecs[e].opts.test_projects
             \/ test_document_ids = {}
          THEN trainSubTasks
          ELSE LET ids == SetToSeq(test_document_ids)
               IN trainSubTasks \o
                  [k \in DOMAIN ids |->
                      [exec |-> e, name |-> "Test Field Detector Model", after |-> FALSE,
                       arg |-> <<trainExecs[e].field, ids[k]>>]] \o
                  <<[exec |-> e, name |-> "Join Field Detector Model Tests", after |-> TRUE,
                     arg |-> <<trainExecs[e].field, trainExecs[e].saved>>]>>
    /\ trainExecs' = [trainExecs EXCEPT ![e].pc = "done"]
    /\ UNCHANGED <<notTrain, fieldDetectable, dirtyFields, models, nextPk, trainWorkers>>

TrainNext ==
    \/ \E kind \in TrainKinds, f \in FieldIds, opts \in TrainAndTestOpts :
          TrainTaskStart(kind, f, opts)
    \/ \E e \in DOMAIN trainExecs, c, d \in BOOLEAN :
          train_model_for_dirty_field_can_retrain(e, c, d)
    \/ \E e \in DOMAIN trainExecs : TrainAndTest_process_begin(e)
    \/ \E e \in DOMAIN trainExecs, r \in {"None", "Model"} :
          train_document_field_detector_model(e, r)
    \/ \E e \in DOMAIN trainExecs : ClassifierModel_delete(e)
    \/ \E e \in DOMAIN trainExecs : new_model_save(e)
    \/ \E e \in DOMAIN trainExecs, ds \in SUBSET TestDocIds :
          TrainAndTest_process_test(e, ds)

(***************************************************************************)
(* identify_contracts / identify_document_classes.                         *)
(***************************************************************************)
ClassDocIds == {1, 2}

\* the document type code and the project of the documents in the database
DocTypeCode(d) == IF d = 1 THEN "a" ELSE "b"
DocProject(d) == d

\* is_contract(doc_text, return_probability=True): an exception, no result,
\* or (flag, probability)
IsContractOutcomes == {"exception", "no_result", "contract", "generic"}
ResultClass(r) == IF r = "contract" THEN "CONTRACT" ELSE "GENERIC"
ResultProb(r) == IF r = "contract" THEN "p90" ELSE "p10"

\* Python's round(n / d) for n >= 0, d > 0: to the nearest, ties to even
Round(n, d) ==
    LET q == n \div d
        r == n % d
    IN IF 2 * r > d THEN q + 1
       ELSE IF 2 * r < d THEN q
       ELSE IF q % 2 = 0 THEN q ELSE q + 1

ClassInit ==
    /\ docClass \in [ClassDocIds -> {"", "CONTRACT"}]
    /\ docMeta \in [ClassDocIds -> {"none", "empty"}]
    /\ rawCache = docClass
    /\ icArgs = [document_type_code |-> "None", force_recheck |-> FALSE, project_id |-> 0]
    /\ icPc = "idle"
    /\ icDocs = <<>>
    /\ icSelected = {}
    /\ icCount = [total |-> 0, counter |-> 0, progress |-> 0]
    /\ icResult = [d \in ClassDocIds |-> "unseen"]
    /\ icHistory = [runs |-> 0, no_meta |-> {}, classified |-> {}]

ClassIdle ==
    /\ docClass = [d \in ClassDocIds |-> ""]
    /\ docMeta = [d \in ClassDocIds |-> "none"]
    /\ rawCache = [d \in ClassDocIds |-> ""]
    /\ icArgs = [document_type_code |-> "None", force_recheck |-> FALSE, project_id |-> 0]
    /\ icPc = "idle"
    /\ icDocs = <<>>
    /\ icSelected = {}
    /\ icCount = [total |-> 0, counter |-> 0, progress |-> 0]
    /\ icResult = [d \in ClassDocIds |-> "unseen"]
    /\ icHistory = [runs |-> 0, no_meta |-> {}, classified |-> {}]

\* docs = Document.objects.all() and its three optional filters
SelectDocs(args) ==
    {d \in ClassDocIds :
        /\ args.force_recheck \/ docClass[d] = ""
        /\ args.document_type_code = "None" \/ DocTypeCode(d) = args.document_type_code
        /\ args.project_id = 0 \/ DocProject(d) = args.project_id}

\* the call up to the loop: the query, total = docs.count()
identify_document_classes_begin(code, force, project) ==
    /\ icPc \in {"idle", "done", "failed"}
    /\ icHistory.runs < MaxClassRuns
    /\ LET args == [document_type_code |-> code, force_recheck |-> force,
                    project_id |-> project]
           docs == SelectDocs(args)
       IN /\ icArgs' = args
          /\ icSelected' = docs
          /\ icDocs' = SetToSeq(docs)
          /\ icCount' = [icCount EXCEPT !.total = Cardinality(docs), !.counter = 0]
          /\ icPc' = IF docs = {} THEN "done" ELSE "loop"
    /\ icResult' = [d \in ClassDocIds |-> "unseen"]
    /\ icHistory' = [runs |-> icHistory.runs + 1,
                     no_meta |-> {d \in ClassDocIds : docMeta[d] = "none"},
                     classified |-> icHistory.classified \cup
                         {d \in ClassDocIds : icResult[d] \in {"contract", "generic"}}]
    /\ UNCHANGED <<notClass, docClass, docMeta, rawCache>>

\* one pass of the loop body for the next document, is_contract giving r
identify_document_classes_loop(r) ==
    /\ icPc = "loop"
    /\ LET doc == Head(icDocs)
           new_task_progress == Round(icCount.counter * 100, icCount.total)
           classified == r \in {"contract", "generic"}
           \* DocumentMetadata.objects.get raises DoesNotExist when no row matches
           raises == classified /\ docMeta[doc] = "none"
       IN /\ icCount' = [icCount EXCEPT !.progress = new_task_progress,
                                        !.counter = @ + 1]
          /\ icResult' = [icResult EXCEPT ![doc] = r]
          /\ docMeta' = IF classified /\ ~raises
                        THEN [docMeta EXCEPT ![doc] = ResultProb(r)] ELSE docMeta
          \* doc.document_class is set on the object in memory, which is what
          \* cache_document_fields then caches
          /\ rawCache' = IF classified /\ ~raises
                         THEN [rawCache EXCEPT ![doc] = ResultClass(r)] ELSE rawCache
          /\ icDocs' = IF raises THEN icDocs ELSE Tail(icDocs)
          /\ icPc' = IF raises THEN "failed"
                     ELSE IF Tail(icDocs) = <<>> THEN "done" ELSE "loop"
    /\ UNCHANGED <<notClass, docClass, icArgs, icSelected, icHistory>>

ClassNext ==
    \/ \E code \in {"None", "a"}, force \in BOOLEAN, project \in {0, 1} :
          identify_document_classes_begin(code, force, project)
    \/ \E r \in IsContractOutcomes : identify_document_classes_loop(r)

(***************************************************************************)
(* retrain_dirty_fields, the periodic task, and the task it starts,        *)
(* TrainDirtyDocumentFieldDetectorModel.  The Task table, its manager's    *)
(* active_tasks_exist, settings and call_task belong to other modules.     *)
(***************************************************************************)
TrainDirtyName == "Train Dirty Document Field Detector Model"
RETRAINING_TASK_EXECUTION_DELAY_IN_SEC == 2
READY_STATES == {"SUCCESS", "FAILURE"}

\* Task.objects.active_tasks_exist(task_name, execution_delay): a task of
\* that name is not finished, or finished after execution_delay
active_tasks_exist(task_name, execution_delay) ==
    \E t \in DOMAIN taskRows :
        /\ taskRows[t].name = task_name
        /\ \/ taskRows[t].status \notin READY_STATES
           \/ taskRows[t].date_done > execution_delay

\* DocumentField.objects.has_dirty_fields()
has_dirty_fields == dirtyFields # {}

\* call_task(task_name, module_name=...): a Task row is created and queued
call_task(task_name) ==
    Append(taskRows, [name |-> task_name, status |-> "PENDING", date_done |-> 0, subs |-> {}])

RetrainInit ==
    /\ now = 0
    /\ taskRows \in {<<>>, <<[name |-> "Train And Test", status |-> "PENDING",
                              date_done |-> 0, subs |-> {}]>>}
    /\ rdLog = <<>>
    /\ fieldDetectable = [f \in FieldIds |-> f = 1]
    /\ dirtyFields \in SUBSET FieldIds
    /\ models \in {{}, {[pk |-> 1, field |-> 1], [pk |-> 2, field |-> 2]}}
    /\ nextPk = 3
    /\ trainWorkers = 0
    /\ trainExecs = <<>>
    /\ trainSubTasks = <<>>

RetrainIdle ==
    /\ now = 0
    /\ taskRows = <<>>
    /\ rdLog = <<>>

retrain_dirty_fields_unguarded ==
    /\ Len(rdLog) < MaxRetrainCalls
    /\ taskRows' = call_task(TrainDirtyName)
    /\ rdLog' = Append(rdLog, "started")
    /\ UNCHANGED <<notRetrain, now, dirtyFields, models, nextPk>>

\* the whole body of retrain_dirty_fields
retrain_dirty_fields ==
    /\ Len(rdLog) < MaxRetrainCalls
    /\ IF has_dirty_fields
       THEN LET task_name == TrainDirtyName
                execution_delay == now - RETRAINING_TASK_EXECUTION_DELAY_IN_SEC
            IN IF ~active_tasks_exist(task_name, execution_delay)
               THEN /\ taskRows' = call_task(task_name)
                    /\ rdLog' = Append(rdLog, "started")
               ELSE /\ rdLog' = Append(rdLog, "nothing")
                    /\ UNCHANGED taskRows
       ELSE /\ rdLog' = Append(rdLog, "nothing")
            /\ UNCHANGED taskRows
    /\ UNCHANGED <<notRetrain, now, dirtyFields, models, nextPk>>

\* time passes
Tick ==
    /\ now < MaxClock
    /\ now' = now + 1
    /\ UNCHANGED <<notRetrain, taskRows, rdLog, dirtyFields, models, nextPk>>

\* another module marks a field dirty
field_becomes_dirty(f) ==
    /\ f \notin dirtyFields
    /\ dirtyFields' = dirtyFields \cup {f}
    /\ UNCHANGED <<notRetrain, now, taskRows, rdLog, models, nextPk>>

\* TrainDirtyDocumentFieldDetectorModel.process: one sub-task per dirty
\* field; with no dirty field the task is finished at once
TrainDirtyDocumentFieldDetectorModel_process(t) ==
    /\ taskRows[t].name = TrainDirtyName
    /\ taskRows[t].status = "PENDING"
    /\ taskRows' = [taskRows EXCEPT
          ![t].status = IF dirtyFields # {} THEN "STARTED" ELSE "SUCCESS",
          ![t].date_done = IF dirtyFields # {} THEN 0 ELSE now,
          ![t].subs = dirtyFields]
    /\ UNCHANGED <<notRetrain, now, rdLog, dirtyFields, models, nextPk>>

\* the body of the sub-task train_model_for_dirty_field, run alone; the task
\* that spawned it is finished when its last sub-task is
train_model_for_dirty_field(t, f, can_retrain, enough_docs, r) ==
    /\ taskRows[t].status = "STARTED"
    /\ f \in taskRows[t].subs
    /\ r \in TrainResults(f)
    /\ LET trained == can_retrain /\ enough_docs /\ r = "Model"
       IN /\ dirtyFields' = IF can_retrain THEN dirtyFields \ {f} ELSE dirtyFields
          /\ models' = IF trained
                       THEN (models \ ModelsOf(f)) \cup {[pk |-> nextPk, field |-> f]}
                       ELSE models
          /\ nextPk' = IF trained THEN nextPk + 1 ELSE nextPk
    /\ taskRows' = [taskRows EXCEPT
          ![t].subs = @ \ {f},
          ![t].status = IF taskRows[t].subs = {f} THEN "SUCCESS" ELSE @,
          ![t].date_done = IF taskRows[t].subs = {f} THEN now ELSE @]
    /\ UNCHANGED <<notRetrain, now, rdLog>>

RetrainNext ==
    \/ retrain_dirty_fields
    \/ Tick
    \/ \E f \in FieldIds : field_becomes_dirty(f)
    \/ \E t \in DOMAIN taskRows : TrainDirtyDocumentFieldDetectorModel_process(t)
    \/ \E t \in DOMAIN taskRows, f \in FieldIds, c, d \in BOOLEAN, r \in {"None", "Model"} :
          train_model_for_dirty_field(t, f, c, d, r)

(***************************************************************************)
(* ImportDocuments.process and ImportDocumentsPack.process.  The zip       *)
(* archive is the sequence of its entries (zip_ref.filelist), each a file  *)
(* name and its bytes; two entries may carry the same name.                *)
(***************************************************************************)
FileNames == {"a.zip", "b.zip", "project_project.zip"}
FileBytes == {"x", "y"}
Archives == UNION {[1..n -> [filename : FileNames, bytes : FileBytes]] : n \in 0..MaxEntries}

ImportProjects == {"None", "project 1"}
ImportUsers == {"None", "user 5"}

cache_key_nameOnly(t, filename) == <<0, "_", filename>>

\* f'{datetime.datetime.now()}_{sub_archive.filename}': the text of a
\* datetime ends in a digit and has one of two fixed lengths, so the string
\* decides the reading and the name; kept here as its three parts
cache_key(t, filename) == <<t, "_", filename>>

\* DbCache.put_to_db(key, value): the value under key is replaced
put_to_db(key, value) == {p \in dbCache : p[1] # key} \cup {<<key, value>>}

\* the document_import_file of the call: the upload, kept where
\* download_task_attached_file finds it
Upload == [cache_key |-> <<0, "_", "upload.zip">>, file_name |-> "upload.zip"]
UploadStored == {<<Upload.cache_key, "archive">>}

\* what download_task_attached_file hands over: the bytes held under the
\* cache_key of document_import_file
Attached(document_import_file) ==
    LET found == {p \in dbCache : p[1] = document_import_file.cache_key}
    IN IF found = {} THEN "missing" ELSE (CHOOSE p \in found : TRUE)[2]

\* import_documents_package(document_import_file, project, user_id,
\* import_files) up to importer.import_documents(fn, project_obj,
\* target_user, import_files or False)
import_documents_package(task, document_import_file, project, user_id, import_files) ==
    [task |-> task, file |-> Attached(document_import_file), project |-> project,
     target_user |-> IF user_id = "None" THEN "task.user_id" ELSE user_id,
     import_files |-> import_files = "True"]

ImportInit ==
    /\ impArgs \in [archive : Archives, project : ImportProjects, user_id : ImportUsers,
                    import_files : {"None", "True"}]
    /\ impPc = "start"
    /\ impI = 0
    /\ impClock = 0
    /\ dbCache = UploadStored
    /\ impSubArgs = <<>>
    /\ impSubTasks = <<>>
    /\ impImported = <<>>

ImportIdle ==
    /\ impArgs = [archive |-> <<>>, project |-> "None", user_id |-> "None",
                  import_files |-> "None"]
    /\ impPc = "idle"
    /\ impI = 0
    /\ impClock = 0
    /\ dbCache = {}
    /\ impSubArgs = <<>>
    /\ impSubTasks = <<>>
    /\ impImported = <<>>

names_only == {impArgs.archive[k].filename : k \in DOMAIN impArgs.archive}

\* ImportDocuments.process up to the loop: an archive with an entry
\* project_project.zip is imported here as one package
ImportDocuments_process_begin ==
    /\ impPc = "start"
    /\ IF "project_project.zip" \in names_only
       THEN /\ impImported' = Append(impImported,
                  import_documents_package(<<"Import Documents", 0>>, Upload, impArgs.project,
                                           impArgs.user_id, impArgs.import_files))
            /\ impPc' = "done"
       ELSE /\ impPc' = "loop"
            /\ UNCHANGED impImported
    /\ UNCHANGED <<notImport, impArgs, impI, impClock, dbCache, impSubArgs, impSubTasks>>

\* one turn of `for sub_archive in file_names`; the clock has moved on since
\* the reading of the turn before, which a database write separates from
\* this one
ImportDocuments_process_entry(tick) ==
    /\ impPc = "loop"
    /\ impI < Len(impArgs.archive)
    /\ LET sub_archive == impArgs.archive[impI + 1]
           file_bytes == sub_archive.bytes
           key == cache_key(impClock + tick, sub_archive.filename)
       IN /\ dbCache' = put_to_db(key, file_bytes)
          /\ impSubArgs' = Append(impSubArgs,
                [document_import_file |-> [cache_key |-> key,
                                           file_name |-> sub_archive.filename],
                 project |-> impArgs.project,
                 user_id |-> impArgs.user_id,
                 import_files |-> impArgs.import_files])
    /\ impClock' = impClock + tick
    /\ impI' = impI + 1
    /\ UNCHANGED <<notImport, impArgs, impPc, impSubTasks, impImported>>

\* self.run_sub_tasks_class_based('Import Documents Pack', ImportDocumentsPack, sub_args)
ImportDocuments_process_spawn ==
    /\ impPc = "loop"
    /\ impI = Len(impArgs.archive)
    /\ impSubTasks' = [k \in DOMAIN impSubArgs |->
                          [name |-> "Import Documents Pack", kwargs |-> impSubArgs[k],
                           status |-> "PENDING"]]
    /\ impPc' = "done"
    /\ UNCHANGED <<notImport, impArgs, impI, impClock, dbCache, impSubArgs, impImported>>

\* ImportDocumentsPack.process
ImportDocumentsPack_process(k) ==
    /\ impSubTasks[k].status = "PENDING"
    /\ LET kw == impSubTasks[k].kwargs
       IN impImported' = Append(impImported,
             import_documents_package(<<"Import Documents Pack", k>>, kw.document_import_file,
                                      kw.project, kw.user_id, kw.import_files))
    /\ impSubTasks' = [impSubTasks EXCEPT ![k].status = "SUCCESS"]
    /\ UNCHANGED <<notImport, impArgs, impPc, impI, impClock, dbCache, impSubArgs>>

ImportNext ==
    \/ ImportDocuments_process_begin
    \/ \E tick \in {1, 2} : ImportDocuments_process_entry(tick)
    \/ ImportDocuments_process_spawn
    \/ \E k \in DOMAIN impSubTasks : ImportDocumentsPack_process(k)

(***************************************************************************)
(* FixDocumentFieldCodes.process.  A code is the sequence of its           *)
(* characters.  The body runs in transaction.atomic(): it is one step.     *)
(* The columns long_code and hide_until_js and the aliases of the document *)
(* type follow the code and are computed by other modules; they are left   *)
(* out.                                                                    *)
(***************************************************************************)
DOCUMENT_FIELD_CODE_MAX_LEN == 4

CodeChars == {"a", "A", "_", "1"}
Digits == <<"0", "1", "2", "3", "4", "5", "6", "7", "8", "9">>
IsDigit(c) == \E k \in DOMAIN Digits : Digits[k] = c
DigitValue(c) == (CHOOSE k \in DOMAIN Digits : Digits[k] = c) - 1

\* the codes a DocumentField row can hold: the column is
\* DOCUMENT_FIELD_CODE_MAX_LEN wide
Codes == UNION {[1..n -> CodeChars] : n \in 1..DOCUMENT_FIELD_CODE_MAX_LEN}

\* two fields of document type "t1", one of "t2", in the order of
\* order_by('order', 'code')
FixFieldIds == {1, 2, 3}
FixTypes == <<"t1", "t2">>
FixFieldsOf(type) == IF type = "t1" THEN <<1, 2>> ELSE <<3>>

Max(a, b) == IF a >= b THEN a ELSE b

\* Python's s[:n]
Cut(s, n) ==
    IF n >= 0 THEN SubSeq(s, 1, Min(n, Len(s)))
    ELSE SubSeq(s, 1, Max(Len(s) + n, 0))

\* int(text) and str(number)
RECURSIVE ToInt(_)
ToInt(ds) ==
    IF ds = <<>> THEN 0
    ELSE 10 * ToInt(SubSeq(ds, 1, Len(ds) - 1)) + DigitValue(ds[Len(ds)])

RECURSIVE ToStr(_)
ToStr(n) ==
    IF n < 10 THEN <<Digits[n + 1]>>
    ELSE ToStr(n \div 10) \o <<Digits[(n % 10) + 1]>>

\* escape_column_name: letters are lowered; lower-case letters, digits and
\* underscores stay
escape_column_name(code) ==
    [i \in DOMAIN code |-> IF code[i] = "A" THEN "a" ELSE code[i]]

\* RE_FIELD_CODE_NUM = (.*)_(\d+), fullmatch: the code ends in an underscore
\* and one or more digits; the split is at the last underscore
MatchAt(code) ==
    {i \in DOMAIN code :
        /\ code[i] = "_"
        /\ i < Len(code)
        /\ \A j \in (i + 1)..Len(code) : IsDigit(code[j])}

\* a dict: dict.get(key) or 0, and d[key] = value
GetOrZero(d, key) == IF key \in DOMAIN d THEN d[key] ELSE 0
Put(d, key, value) == [x \in DOMAIN d \cup {key} |-> IF x = key THEN value ELSE d[x]]

\* the first loop over the codes of a document type
RECURSIVE CountCodes(_, _, _)
CountCodes(codes, i, field_code_use_counts) ==
    IF i > Len(codes) THEN field_code_use_counts
    ELSE LET code == codes[i]
             c1 == Put(field_code_use_counts, code, 1)
             m == MatchAt(code)
         IN IF m # {}
            THEN LET at == CHOOSE k \in m : TRUE
                     base == SubSeq(code, 1, at - 1)
                     num == ToInt(SubSeq(code, at + 1, Len(code)))
                     old_num == GetOrZero(c1, base)
                 IN CountCodes(codes, i + 1, Put(c1, base, Max(old_num, num)))
            ELSE CountCodes(codes, i + 1, c1)

NewCode_uncut(field_code_escaped, field_code_use_count) ==
    LET counter_str == ToStr(field_code_use_count)
    IN field_code_escaped \o <<"_">> \o counter_str

\* the code of a field whose escaped code is in use: cut to leave room for
\* the underscore and the counter
NewCode(field_code_escaped, field_code_use_count) ==
    LET counter_str == ToStr(field_code_use_count)
    IN Cut(field_code_escaped, DOCUMENT_FIELD_CODE_MAX_LEN - Len(counter_str) - 1)
       \o <<"_">> \o counter_str

\* the second loop over the fields of a document type; st holds the codes
\* of all rows, the use counts and csv_log
RECURSIVE FixFields(_, _, _, _)
FixFields(type, fields, i, st) ==
    IF i > Len(fields) THEN st
    ELSE LET field == fields[i]
             code == st.codes[field]
             field_code_escaped ==
                 Cut(escape_column_name(code), DOCUMENT_FIELD_CODE_MAX_LEN)
         IN IF code = field_code_escaped
            THEN FixFields(type, fields, i + 1,
                    [st EXCEPT !.counts = Put(@, code, GetOrZero(@, code) + 1)])
            ELSE LET used == field_code_escaped \in DOMAIN st.counts
                     new_code == IF used
                                 THEN NewCode(field_code_escaped,
                                              st.counts[field_code_escaped])
                                 ELSE field_code_escaped
                 IN FixFields(type, fields, i + 1,
                       [counts |-> Put(st.counts, field_code_escaped,
                                       GetOrZero(st.counts, field_code_escaped) + 1),
                        codes |-> [st.codes EXCEPT ![field] = new_code],
                        log |-> Append(st.log, <<type, code, new_code>>)])

\* `for document_type in DocumentType.objects.all()`
RECURSIVE FixTypesFrom(_, _, _)
FixTypesFrom(t, codes, log) ==
    IF t > Len(FixTypes) THEN [codes |-> codes, log |-> log]
    ELSE LET fields == FixFieldsOf(FixTypes[t])
             counted == CountCodes([k \in DOMAIN fields |-> codes[fields[k]]], 1, <<>>)
             st == FixFields(FixTypes[t], fields, 1,
                             [counts |-> counted, codes |-> codes, log |-> log])
         IN FixTypesFrom(t + 1, st.codes, st.log)

FixInit ==
    /\ fixCodes \in [FixFieldIds -> Codes]
    /\ fixCodes[1] # fixCodes[2]
    /\ fixCodes[3] \in {<<"A">>, <<"a">>}
    /\ fixInitial = fixCodes
    /\ fixPc = "start"
    /\ fixLog = <<>>

FixIdle ==
    /\ fixCodes = [f \in FixFieldIds |-> <<"a">>]
    /\ fixInitial = fixCodes
    /\ fixPc = "idle"
    /\ fixLog = <<>>

FixDocumentFieldCodes_process ==
    /\ fixPc = "start"
    /\ LET out == FixTypesFrom(1, fixCodes, <<>>)
       IN /\ fixCodes' = out.codes
          /\ fixLog' = out.log
    /\ fixPc' = "done"
    /\ UNCHANGED <<notFix, fixInitial>>

FixNext == FixDocumentFieldCodes_process

(***************************************************************************)
(* Specifications: one part runs, the others stay idle.                    *)
(***************************************************************************)
InitPlan == PlanInit /\ DelIdle /\ TrainIdle /\ ClassIdle /\ RetryIdle /\ RetrainIdle /\ ImportIdle /\ FixIdle
SpecPlan == InitPlan /\ [][PlanNext]_vars

InitDelete == DelInit /\ PlanIdle /\ TrainIdle /\ ClassIdle /\ RetryIdle /\ RetrainIdle /\ ImportIdle /\ FixIdle
SpecDelete == InitDelete /\ [][DelNext]_vars

\* training executions one at a time, and two at a time
InitTrainSerial == TrainInitWith(1) /\ PlanIdle /\ DelIdle /\ ClassIdle /\ RetryIdle /\ RetrainIdle /\ ImportIdle /\ FixIdle
SpecTrainSerial == InitTrainSerial /\ [][TrainNext]_vars

InitTrain == TrainInitWith(2) /\ PlanIdle /\ DelIdle /\ ClassIdle /\ RetryIdle /\ RetrainIdle /\ ImportIdle /\ FixIdle
SpecTrain == InitTrain /\ [][TrainNext]_vars

InitClass == ClassInit /\ PlanIdle /\ DelIdle /\ TrainIdle /\ RetryIdle /\ RetrainIdle /\ ImportIdle /\ FixIdle
SpecClass == InitClass /\ [][ClassNext]_vars

InitRetry == RetryInit /\ PlanIdle /\ DelIdle /\ TrainIdle /\ ClassIdle /\ RetrainIdle /\ ImportIdle /\ FixIdle
SpecRetry == InitRetry /\ [][RetryNext]_vars

InitRetrain == RetrainInit /\ PlanIdle /\ DelIdle /\ ClassIdle /\ RetryIdle /\ ImportIdle /\ FixIdle
SpecRetrain == InitRetrain /\ [][RetrainNext]_vars

InitImport == ImportInit /\ PlanIdle /\ DelIdle /\ TrainIdle /\ ClassIdle /\ RetryIdle /\ RetrainIdle /\ FixIdle
SpecImport == InitImport /\ [][ImportNext]_vars

InitFix == FixInit /\ PlanIdle /\ DelIdle /\ TrainIdle /\ ClassIdle /\ RetryIdle /\ RetrainIdle /\ ImportIdle
SpecFix == InitFix /\ [][FixNext]_vars

\* ---- end of specifications

(***************************************************************************)
(* Claims.                                                                 *)
(***************************************************************************)
PlanFunc(kind) ==
    IF kind = "status" THEN "process_documents_status_changed"
    ELSE "process_documents_assignee_changed"

MainChunks == [i \in DOMAIN mainTasks |-> mainTasks[i].doc_ids]

\* the sub-tasks of main task m, in scheduling order
SubTasksOf(m) == SelectSeq(subTasks, LAMBDA t : t.main = m)

(***************************************************************************)
(* C1: once a plan_process_documents_* call has returned, the main tasks   *)
(* it started carry consecutive chunks of the input: their doc_ids         *)
(* concatenated in start order are the input, every chunk holds between 1  *)
(* and DOC_NUMBER_PER_MAIN_TASK ids, every input id is in exactly one main *)
(* task, an empty input starts no task, and every task is the one of the   *)
(* planned kind with the call's new id and user.  Nothing is started       *)
(* before the call.                                                        *)
(***************************************************************************)
C1_MainTasksChunkInput ==
    /\ planPc = "idle" => mainTasks = <<>>
    /\ planPc = "planned" =>
        /\ Concat(MainChunks) = planReq.doc_ids
        /\ \A i \in DOMAIN mainTasks :
              /\ Len(mainTasks[i].doc_ids) >= 1
              /\ Len(mainTasks[i].doc_ids) <= DOC_NUMBER_PER_MAIN_TASK
              /\ mainTasks[i].func = PlanFunc(planReq.kind)
              /\ mainTasks[i].new_id = planReq.new_id
              /\ mainTasks[i].changed_by_user_id = planReq.changed_by_user_id
              /\ mainTasks[i].user_id = planReq.changed_by_user_id
        /\ \A d \in Range(planReq.doc_ids) :
              Cardinality({i \in DOMAIN mainTasks : d \in Range(mainTasks[i].doc_ids)}) = 1
        /\ planReq.doc_ids = <<>> => mainTasks = <<>>

\* a planned call whose input needed a full chunk and a shorter last one
C1_Witness ==
    /\ planPc = "planned"
    /\ Len(planReq.doc_ids) = DOC_NUMBER_PER_MAIN_TASK + 1
    /\ Len(mainTasks) = 2
    /\ Len(mainTasks[2].doc_ids) = 1

(***************************************************************************)
(* C2: a main task that has run scheduled sub-tasks whose doc_ids are      *)
(* chunks of at most DOC_NUMBER_PER_SUB_TASK ids of its own doc_ids: the   *)
(* chunks are pairwise disjoint, together they are exactly the main task's *)
(* doc_ids, and every sub-task carries the main task's new status/assignee *)
(* id and changed_by_user_id.  A main task that has not run has none.      *)
(***************************************************************************)
C2_SubTasksPartitionMain ==
    \A m \in DOMAIN mainTasks :
        LET subs == SubTasksOf(m)
        IN IF m \notin mainRun THEN subs = <<>>
           ELSE /\ Concat([i \in DOMAIN subs |-> subs[i].doc_ids]) = mainTasks[m].doc_ids
                /\ UNION {Range(subs[i].doc_ids) : i \in DOMAIN subs}
                       = Range(mainTasks[m].doc_ids)
                /\ \A i \in DOMAIN subs :
                      /\ Len(subs[i].doc_ids) >= 1
                      /\ Len(subs[i].doc_ids) <= DOC_NUMBER_PER_SUB_TASK
                      /\ subs[i].new_id = mainTasks[m].new_id
                      /\ subs[i].changed_by_user_id = mainTasks[m].changed_by_user_id
                      /\ subs[i].func = "_" \o mainTasks[m].func
                /\ \A i, j \in DOMAIN subs :
                      i # j => Range(subs[i].doc_ids) \cap Range(subs[j].doc_ids) = {}

\* a main task of a full main chunk has run and fanned out into two sub-tasks
C2_Witness ==
    \E m \in mainRun :
        /\ Len(mainTasks[m].doc_ids) = DOC_NUMBER_PER_MAIN_TASK
        /\ Len(SubTasksOf(m)) = 2

CleanTask == delTasks[1]

DeleteTasks == {i \in DOMAIN delTasks : delTasks[i].name = "Delete Document Type itself"}

\* a sub-task that a worker has taken at least once
HasStarted(t) == t.state # "PENDING"

\* positions of an event in the log
LogAt(kind, pk) == {k \in DOMAIN delLog : delLog[k] = <<kind, pk>>}

(***************************************************************************)
(* C3: no delete_document_type sub-task has been started by a worker, and  *)
(* no document type row has been deleted, unless the Clean Projects        *)
(* sub-task has finished; a deleted document type has none of its projects *)
(* left.                                                                   *)
(***************************************************************************)
C3_DeleteAfterCleanProjects ==
    delPc = "scheduled" =>
        /\ \A i \in DeleteTasks : HasStarted(delTasks[i]) => Finished(CleanTask)
        /\ \A k \in DOMAIN delLog :
              delLog[k][1] = "deleted" =>
                  /\ Finished(CleanTask)
                  /\ \A p \in projects : p[2] # delLog[k][2]

\* a delete sub-task runs after Clean Projects deleted a project of its type
C3_Witness ==
    /\ delPc = "scheduled"
    /\ CleanTask.state = "SUCCESS"
    /\ \E i \in DeleteTasks :
          /\ delTasks[i].state = "STARTED"
          /\ delTasks[i].pc = "send"
          /\ CleanTask.arg # {}

\* every sub-task of the Delete Document Types task has its final outcome
AllDeleteFinal ==
    /\ delPc = "scheduled"
    /\ \A i \in DOMAIN delTasks : Finished(delTasks[i])

(***************************************************************************)
(* C4: once Clean Projects has finished and every delete sub-task has its  *)
(* final outcome (automatic retries included), every document type of      *)
(* document_type_ids is deleted and its document_type_deleted signal was   *)
(* sent exactly once, after the row was deleted.                           *)
(***************************************************************************)
C4_AllDeletedSignalOnce ==
    AllDeleteFinal =>
        \A pk \in Range(delReq) :
            /\ pk \notin docTypes
            /\ Cardinality(LogAt("signal", pk)) = 1
            /\ \A k \in LogAt("signal", pk) : \E d \in LogAt("deleted", pk) : d < k

\* what the code does keep: a signal is sent at most once per type and only
\* after the row was deleted, and a sub-task that ended in SUCCESS deleted
\* its type and sent its signal
C4_SuccessDeletedSignalOnce ==
    /\ \A pk \in Range(delReq) :
          /\ Cardinality(LogAt("signal", pk)) <= 1
          /\ \A k \in LogAt("signal", pk) : \E d \in LogAt("deleted", pk) : d < k
    /\ \A i \in DeleteTasks :
          delTasks[i].state = "SUCCESS" =>
              /\ delTasks[i].arg \notin docTypes
              /\ Cardinality(LogAt("signal", delTasks[i].arg)) = 1


\* the step in which execution e leaves its training part: by the save, by a
\* training that returned nothing, or because nothing was to be trained
TrainingFinishes(e) ==
    /\ trainExecs[e].pc \in {"can_retrain", "train", "save"}
    /\ trainExecs'[e].pc \in {"test", "done"}

(***************************************************************************)
(* C5: when the training part of an execution for a field completes, then  *)
(* if training returned a model the database holds exactly one             *)
(* ClassifierModel of that field, the row just saved, which is none of the *)
(* rows found at the start; if training returned no model (or was not      *)
(* run), the ClassifierModel rows of the field are those found at the      *)
(* start.  Rows of other fields are never touched.                         *)
(***************************************************************************)
C5_TrainingReplacesModels ==
    [][\A e \in DOMAIN trainExecs :
          TrainingFinishes(e) =>
              LET x == trainExecs'[e]
                  after == {m \in models' : m.field = x.field}
              IN /\ IF x.new_model = "Model"
                    THEN /\ after = x.saved
                         /\ Cardinality(after) = 1
                         /\ x.saved \cap x.before = {}
                    ELSE after = x.before
                 /\ {m \in models' : m.field # x.field} = {m \in models : m.field # x.field}]_vars

\* an execution that found two old rows of its field has replaced them
C5_Witness ==
    \E e \in DOMAIN trainExecs :
        /\ trainExecs[e].pc = "done"
        /\ trainExecs[e].new_model = "Model"
        /\ Cardinality(trainExecs[e].before) = 2
        /\ ModelsOf(trainExecs[e].field) = trainExecs[e].saved
        /\ Cardinality(trainExecs[e].saved) = 1

(***************************************************************************)
(* C9: a TrainAndTest.process execution for a field that is not detectable *)
(* trains no model, deletes and saves no ClassifierModel of the field and  *)
(* schedules no test and no join sub-task.                                 *)
(***************************************************************************)
C9_NotDetectableDoesNothing ==
    \A e \in DOMAIN trainExecs :
        (trainExecs[e].kind = "TrainAndTest" /\ ~fieldDetectable[trainExecs[e].field]) =>
            /\ trainExecs[e].new_model = "None"
            /\ trainExecs[e].saved = {}
            /\ ModelsOf(trainExecs[e].field) = trainExecs[e].before
            /\ \A k \in DOMAIN trainSubTasks : trainSubTasks[k].exec # e

(***************************************************************************)
(* C6: when identify_document_classes has finished, every selected         *)
(* document for which is_contract returned a result has document_class     *)
(* CONTRACT (flag true) or GENERIC (flag false) in its database row and    *)
(* the returned probability in its DocumentMetadata; and a call without    *)
(* force_recheck selects no document an earlier call has classified.       *)
(***************************************************************************)
C6_ClassAndProbabilityStored ==
    /\ icPc = "done" =>
          \A d \in icSelected :
              icResult[d] \in {"contract", "generic"} =>
                  /\ docClass[d] = ResultClass(icResult[d])
                  /\ docMeta[d] = ResultProb(icResult[d])
    /\ ~icArgs.force_recheck => icSelected \cap icHistory.classified = {}

(***************************************************************************)
(* C10: a classified document that had no DocumentMetadata row gets one    *)
(* holding the class probability, and the call is not ended by an          *)
(* exception: the loop goes on to the remaining documents.                 *)
(***************************************************************************)
C10_MissingMetadataCreated ==
    /\ icPc # "failed"
    /\ \A d \in icHistory.no_meta :
          icResult[d] \in {"contract", "generic"} => docMeta[d] = ResultProb(icResult[d])

\* the retries the declarations are said to allow
SaidMaxRetries(name) ==
    CASE name \in {"ImportDocuments", "ImportDocumentsPack"} -> 2
      [] name = "cache_document_fields_for_doc_ids" -> 0
      [] OTHER -> 3

NamedExceptions == {"SoftTimeLimitExceeded", "InterfaceError", "OperationalError"}

(***************************************************************************)
(* C7: the body of a task is executed again only after an execution ended  *)
(* by SoftTimeLimitExceeded, InterfaceError or OperationalError, and at    *)
(* most max_retries times (2 for ImportDocuments and ImportDocumentsPack,  *)
(* 0 for cache_document_fields_for_doc_ids, 3 for the others); any other   *)
(* exception ends the task in the execution that raised it.                *)
(***************************************************************************)
C7_RetryOnlyAsDeclared ==
    /\ rtTask.executions <= 1 + SaidMaxRetries(rtTask.name)
    /\ rtTask.executions <= 1 + Len(rtTask.raised)
    /\ \A k \in DOMAIN rtTask.raised :
          k < rtTask.executions => rtTask.raised[k] \in NamedExceptions
    /\ \A k \in DOMAIN rtTask.raised :
          rtTask.raised[k] \notin NamedExceptions =>
              /\ rtTask.state = "FAILURE"
              /\ k = rtTask.executions
    /\ rtTask.state = "RETRY" => rtTask.retries <= SaidMaxRetries(rtTask.name)

\* Import Documents has failed for good after its two retries
C7_Witness ==
    /\ rtTask.name = "ImportDocuments"
    /\ rtTask.executions = 3
    /\ rtTask.state = "FAILURE"
    /\ rtTask.raised = <<"OperationalError", "SoftTimeLimitExceeded", "InterfaceError">>

\* a call of retrain_dirty_fields is the step that extends rdLog
(***************************************************************************)
(* C8: a call of retrain_dirty_fields creates a task, one task named       *)
(* 'Train Dirty Document Field Detector Model', only in a state with a     *)
(* dirty field and for which active_tasks_exist reports no active task of  *)
(* that name since now - RETRAINING_TASK_EXECUTION_DELAY_IN_SEC; in every  *)
(* other state the Task table stays as it was; fields and models are never *)
(* touched.                                                                *)
(***************************************************************************)
C8_RetrainOnlyWhenDirtyAndIdle ==
    [][rdLog' # rdLog =>
          LET ok == /\ \E f \in FieldIds : f \in dirtyFields
                    /\ ~active_tasks_exist(TrainDirtyName,
                                           now - RETRAINING_TASK_EXECUTION_DELAY_IN_SEC)
          IN /\ taskRows' # taskRows =>
                    /\ ok
                    /\ Len(taskRows') = Len(taskRows) + 1
                    /\ SubSeq(taskRows', 1, Len(taskRows)) = taskRows
                    /\ taskRows'[Len(taskRows')].name = TrainDirtyName
                    /\ taskRows'[Len(taskRows')].status = "PENDING"
             /\ ~ok => taskRows' = taskRows
             /\ UNCHANGED <<planVars, delVars, trainVars, classVars, retryVars, now>>
    ]_vars

\* a first call started the task, a call within the window did nothing, a
\* call after the window started the task again
C8_Witness ==
    /\ rdLog = <<"started", "nothing", "started">>
    /\ \E t \in DOMAIN taskRows : taskRows[t].status = "SUCCESS"

\* the packages imported by the task itself and by its sub-tasks
ImportedBy(task) == {k \in DOMAIN impImported : impImported[k].task = task}

C11_WitnessOnePackage ==
    /\ impPc = "done"
    /\ Len(impArgs.archive) = 2
    /\ impImported # <<>>
    /\ impSubTasks = <<>>

(***************************************************************************)
(* C12: after FixDocumentFieldCodes has run over field codes that were     *)
(* pairwise distinct within their document type, the codes of the fields   *)
(* of every document type are pairwise distinct.                           *)
(***************************************************************************)
C12_CodesDistinctAfterFix ==
    fixPc = "done" =>
        \A t \in DOMAIN FixTypes :
            LET fields == FixFieldsOf(FixTypes[t])
            IN \A j, k \in DOMAIN fields :
                  j # k => fixCodes[fields[j]] # fixCodes[fields[k]]

AllTrainingFinished ==
    /\ trainExecs # <<>>
    /\ \A e \in DOMAIN trainExecs : ~Running(e)

(***************************************************************************)
(* C14: once all training executions have finished, whatever their         *)
(* interleaving, a field for which one of them saved a new model has at    *)
(* most one ClassifierModel row.                                           *)
(***************************************************************************)
C14_AtMostOneModelAfterTraining ==
    AllTrainingFinished =>
        \A f \in FieldIds :
            (\E e \in DOMAIN trainExecs :
                trainExecs[e].field = f /\ trainExecs[e].saved # {})
            => Cardinality(ModelsOf(f)) <= 1

====
